---------------------------- MODULE Spec2Model ----------------------------
(***************************************************************************)
(* Model of the AI request orchestration of the English tutor client:      *)
(* getApiKey, callAIWithRetry, cleanJsonString and the task callers        *)
(* (src/types.ts), together with the SettingsModal's Save handler          *)
(* (src/unnamed/part_000).                                                 *)
(*                                                                         *)
(* Strings of the program whose content matters (model output, error       *)
(* messages) are sequences of tokens; a template literal is the            *)
(* concatenation of its fragments.  null/undefined is the token Null.      *)
(***************************************************************************)
EXTENDS Integers, Sequences, FiniteSets, TLC

(* ----------------------------- bounds --------------------------------- *)

\* Number of task-caller invocations the UI makes in one session.
MaxCalls == 2

(* ------------------------ program constants --------------------------- *)

Null == "<null>"

\* types.ts:58-62, the ids of SUPPORTED_MODELS in declaration order
SUPPORTED_MODELS ==
    << "gemini-3-flash-preview", "gemini-3-pro-preview", "gemini-2.5-flash" >>

\* types.ts:68
FALLBACK_ORDER ==
    << "gemini-3-flash-preview", "gemini-3-pro-preview", "gemini-2.5-flash" >>

\* types.ts:107, the initial value of currentModel
DEFAULT_MODEL == "gemini-3-flash-preview"

\* localStorage keys (types.ts:81, 109; part_000:24-25)
LS_KEY == "lingua_api_key"
LS_MODEL == "lingua_selected_model"

\* types.ts:104
MISSING_KEY_MESSAGE ==
    << "API Key is missing. Please click 'Settings' to add your key." >>

\* types.ts:134, the fragments of the template literal around ${lastError?.message}
EXHAUSTED_PREFIX ==
    << "System overloaded or Model Error. Please try again later. (Last error: " >>
EXHAUSTED_SUFFIX == << ")" >>

\* types.ts:160
NO_AUDIO_MESSAGE == << "No audio generated" >>

\* the message of the SyntaxError JSON.parse throws (types.ts:215, 299, 358, 399)
SYNTAX_ERROR_MESSAGE == << "Unexpected token in JSON" >>

\* operationName arguments (types.ts:140, 172, 234, 321, 366)
JsonTasks ==
    { "analyzeWriting", "interactWithExaminer", "gradeSpeakingSession",
      "analyzePronunciation", "analyzeSpeaking" }
Tasks == JsonTasks \cup { "generateSpeech" }

\* analyzeSpeaking delegates to gradeSpeakingSession (types.ts:223), every
\* other caller passes its own name as operationName
OperationName(task) ==
    IF task = "analyzeSpeaking" THEN "gradeSpeakingSession" ELSE task

(* ------------------------- JavaScript helpers ------------------------- *)

\* truthiness of a string-or-null value: null, undefined and "" are falsy
Truthy(v) == v # Null /\ v # ""

\* a || b
Or(a, b) == IF Truthy(a) THEN a ELSE b

Range(s) == { s[i] : i \in DOMAIN s }

\* Array.from(new Set(xs)): insertion order, first occurrence kept
RECURSIVE DedupeFrom(_, _)
DedupeFrom(xs, acc) ==
    IF xs = << >> THEN acc
    ELSE DedupeFrom(Tail(xs),
                    IF Head(xs) \in Range(acc) THEN acc ELSE Append(acc, Head(xs)))

UniqueKeepLast(xs) ==
    LET rec[i \in 0..Len(xs)] ==
            IF i = 0 THEN << >>
            ELSE LET x == xs[Len(xs) + 1 - i]
                 IN IF x \in Range(rec[i - 1]) THEN rec[i - 1] ELSE << x >> \o rec[i - 1]
    IN rec[Len(xs)]

Unique(xs) == DedupeFrom(xs, << >>)

\* SUPPORTED_MODELS.some(m => m.id === savedModel)
IsSupported(m) == \E i \in DOMAIN SUPPORTED_MODELS : SUPPORTED_MODELS[i] = m

\* hay.includes(needle) on token sequences
Includes(hay, needle) ==
    \E i \in 0..(Len(hay) - Len(needle)) :
        \A j \in 1..Len(needle) : hay[i + j] = needle[j]


(* ---------------------- Response Contract Parser ---------------------- *)

\* tokens of a model's response text
\* the three-backquote code fence marker
FENCE == "<fence>"
NL == "\\n"
SP == " "
Whitespace == { NL, SP }

\* "key":value members a response object is built from, as key and value
MemberKey ==
    [ t \in { "score:7", "feedback:ok", "response:Hi", "response:", "transcription:t" } |->
        CASE t = "score:7" -> "score"
          [] t = "feedback:ok" -> "feedback"
          [] t = "response:Hi" -> "response"
          [] t = "response:" -> "response"
          [] t = "transcription:t" -> "transcription" ]
MemberVal ==
    [ t \in DOMAIN MemberKey |->
        CASE t = "score:7" -> "7"
          [] t = "feedback:ok" -> "ok"
          [] t = "response:Hi" -> "Hi"
          [] t = "response:" -> ""
          [] t = "transcription:t" -> "t" ]

\* str.replace of every match of (fence json newline?) or (fence) by the empty
\* string: one left-to-right pass, the longer alternative first, the result
\* is not rescanned
RECURSIVE StripFences(_)
StripFences(str) ==
    IF str = << >> THEN << >>
    ELSE IF Head(str) = FENCE
         THEN IF Len(str) >= 2 /\ str[2] = "json"
              THEN IF Len(str) >= 3 /\ str[3] = NL
                   THEN StripFences(SubSeq(str, 4, Len(str)))
                   ELSE StripFences(SubSeq(str, 3, Len(str)))
              ELSE StripFences(Tail(str))
         ELSE << Head(str) >> \o StripFences(Tail(str))

\* String.prototype.trim
RECURSIVE Trim(_)
Trim(str) ==
    IF str = << >> THEN << >>
    ELSE IF Head(str) \in Whitespace THEN Trim(Tail(str))
    ELSE IF str[Len(str)] \in Whitespace THEN Trim(SubSeq(str, 1, Len(str) - 1))
    ELSE str

\* a variant that leaves the fences in place
CleanNoStrip(str) == Trim(str)

\* types.ts:73-75
cleanJsonString(str) == Trim(StripFences(str))

\* the tokens of a text that are not insignificant whitespace
RECURSIVE Significant(_)
Significant(str) ==
    IF str = << >> THEN << >>
    ELSE IF Head(str) \in Whitespace THEN Significant(Tail(str))
    ELSE << Head(str) >> \o Significant(Tail(str))

\* whether the text is a JSON object: { member , member ... }
IsJsonObject(str) ==
    LET t == Significant(str)
        n == Len(t)
    IN /\ n >= 2
       /\ t[1] = "{"
       /\ t[n] = "}"
       /\ \/ n = 2
          \/ /\ n % 2 = 1
             /\ \A k \in 2..(n - 1) :
                   IF k % 2 = 0 THEN t[k] \in DOMAIN MemberKey ELSE t[k] = ","

\* the object a JSON object text denotes: a later duplicate key wins
JsonObject(str) ==
    LET t == Significant(str)
        at(key) == { k \in DOMAIN t : t[k] \in DOMAIN MemberKey /\ MemberKey[t[k]] = key }
        keys == { MemberKey[t[k]] : k \in { j \in DOMAIN t : t[j] \in DOMAIN MemberKey } }
        last(S) == CHOOSE k \in S : \A j \in S : j <= k
    IN [ key \in keys |-> MemberVal[t[last(at(key))]] ]

\* a parser that takes any text for the empty object
ParseLenient(str) ==
    IF IsJsonObject(str) THEN [ ok |-> TRUE, value |-> JsonObject(str) ]
    ELSE [ ok |-> TRUE, value |-> << >> ]

\* JSON.parse(str): a value, or a SyntaxError
JSONparse(str) ==
    IF IsJsonObject(str) THEN [ ok |-> TRUE, value |-> JsonObject(str) ]
    ELSE [ ok |-> FALSE, value |-> << >> ]

\* obj.field, undefined when the object has no such member
Field(obj, name) == IF name \in DOMAIN obj THEN obj[name] ELSE Null

(* ------------------- credential and model preference ------------------ *)

\* a resolver that prefers the process configuration over the stored key
getApiKeyEnvFirst(win, ls, penv) ==
    LET key == Or(penv.API_KEY, penv.GEMINI_API_KEY)
    IN IF Truthy(key) THEN key
       ELSE IF win /\ Truthy(ls[LS_KEY]) THEN ls[LS_KEY] ELSE ""

\* types.ts:78-94
getApiKey(win, ls, penv) ==
    IF win /\ Truthy(ls[LS_KEY]) THEN ls[LS_KEY]
    ELSE LET key == Or(penv.API_KEY, penv.GEMINI_API_KEY)
         IN IF ~Truthy(key) THEN "" ELSE key

\* a preference that is taken without checking it against SUPPORTED_MODELS
PreferredUnchecked(win, ls) ==
    IF win /\ Truthy(ls[LS_MODEL]) THEN ls[LS_MODEL] ELSE DEFAULT_MODEL

\* types.ts:107-113, the value of currentModel
PreferredModel(win, ls) ==
    IF win /\ Truthy(ls[LS_MODEL]) /\ IsSupported(ls[LS_MODEL])
    THEN ls[LS_MODEL]
    ELSE DEFAULT_MODEL

\* a chain whose duplicates keep their last occurrence
ChainKeepLast(win, ls) ==
    UniqueKeepLast(<< PreferredModel(win, ls) >> \o FALLBACK_ORDER)

\* a chain that is not deduplicated
ChainNoDedupe(win, ls) == << PreferredModel(win, ls) >> \o FALLBACK_ORDER

\* types.ts:118, uniqueFallbacks
CandidateChain(win, ls) == Unique(<< PreferredModel(win, ls) >> \o FALLBACK_ORDER)

(* ------------------------- request construction ----------------------- *)

\* the arguments of a task caller that decide the shape of its request;
\* callers other than interactWithExaminer are called with NoArgs
NoArgs == [ userAudioBase64 |-> Null, specificQuestion |-> Null, isFinish |-> FALSE ]

\* interactWithExaminer(history, topic, userAudioBase64?, specificQuestion?,
\* isFinish = false), types.ts:226-232
TurnArgs ==
    [ userAudioBase64 : { Null, "GkXfo59ChoEB" },
      specificQuestion : { Null, "Do you work or study?" },
      isFinish : BOOLEAN ]

\* the sentences of the prompts that ask the student a question
AskSentences ==
    { "ask exactly this question: ", "ask the first question about the topic.",
      "3. Ask exactly this NEXT question: ",
      "3. Ask the NEXT follow-up question related to the topic." }

\* a prompt that looks at the fixed question before the final-turn flag
TurnPromptQuestionFirst(args) ==
    IF ~Truthy(args.userAudioBase64)
    THEN IF Truthy(args.specificQuestion)
         THEN << "Start the interview.", "Introduce yourself briefly (1 sentence)",
                 "ask exactly this question: ", args.specificQuestion >>
         ELSE << "Start the interview.", "Introduce yourself briefly",
                 "ask the first question about the topic." >>
    ELSE IF Truthy(args.specificQuestion)
    THEN << "The user just answered via audio.",
            "1. Transcribe the user's audio accurately.",
            "2. Generate a brief, natural response to acknowledge their answer",
            "3. Ask exactly this NEXT question: ", args.specificQuestion,
            "4. Keep your response concise (under 30 words)" >>
    ELSE IF args.isFinish
    THEN << "The user just answered the final question via audio.",
            "1. Transcribe the user's audio accurately.",
            "2. Generate a brief polite closing statement",
            "Do NOT ask another question." >>
    ELSE << "The user just answered via audio.",
            "1. Transcribe the user's audio accurately.",
            "2. Generate a brief, natural response to acknowledge their answer",
            "3. Ask the NEXT follow-up question related to the topic.",
            "4. Keep your response concise (under 30 words)" >>

\* the prompt of interactWithExaminer, types.ts:245-284, sentence by sentence
TurnPrompt(args) ==
    IF ~Truthy(args.userAudioBase64)
    THEN IF Truthy(args.specificQuestion)
         THEN << "Start the interview.", "Introduce yourself briefly (1 sentence)",
                 "ask exactly this question: ", args.specificQuestion >>
         ELSE << "Start the interview.", "Introduce yourself briefly",
                 "ask the first question about the topic." >>
    ELSE IF args.isFinish
    THEN << "The user just answered the final question via audio.",
            "1. Transcribe the user's audio accurately.",
            "2. Generate a brief polite closing statement",
            "Do NOT ask another question." >>
    ELSE IF Truthy(args.specificQuestion)
    THEN << "The user just answered via audio.",
            "1. Transcribe the user's audio accurately.",
            "2. Generate a brief, natural response to acknowledge their answer",
            "3. Ask exactly this NEXT question: ", args.specificQuestion,
            "4. Keep your response concise (under 30 words)" >>
    ELSE << "The user just answered via audio.",
            "1. Transcribe the user's audio accurately.",
            "2. Generate a brief, natural response to acknowledge their answer",
            "3. Ask the NEXT follow-up question related to the topic.",
            "4. Keep your response concise (under 30 words)" >>

\* the parts of interactWithExaminer's request, types.ts:246, 255, 285-286
TurnParts(args) ==
    IF ~Truthy(args.userAudioBase64)
    THEN << [ kind |-> "text", data |-> TurnPrompt(args) ] >>
    ELSE << [ kind |-> "inlineData", data |-> << args.userAudioBase64 >> ],
            [ kind |-> "text", data |-> TurnPrompt(args) ] >>

\* the content parts of the request a task sends; the prompts of the other
\* callers are not looked into
RequestParts(task, args) ==
    IF task = "interactWithExaminer" THEN TurnParts(args)
    ELSE << [ kind |-> "text", data |-> << task >> ] >>

(* --------------------------- program state ---------------------------- *)

VARIABLES
    hasWindow,      \* typeof window !== 'undefined'
    localStorage,   \* the browser's persisted key-value store
    env,            \* process.env
    frames,         \* the invocation in progress, and the speech synthesis nested in it
    calls,          \* task-caller invocations made so far
    parser,         \* a response text on its way through the Response Contract Parser
    modal           \* the SettingsModal's props: isOpen, apiKey, selectedModel

vars == << hasWindow, localStorage, env, frames, calls, parser, modal >>

\* a promise: pending, resolved with a value, or rejected with an Error
Pending == [ state |-> "pending", value |-> << >>, message |-> << >> ]
Resolved(v) == [ state |-> "resolved", value |-> v, message |-> << >> ]
Rejected(m) == [ state |-> "rejected", value |-> << >>, message |-> m ]

NoReply == [ ok |-> FALSE, message |-> << >>, text |-> << >>, audio |-> Null ]

\* let lastError: any = null (types.ts:120)
NullError == [ isNull |-> TRUE, message |-> << >> ]
ErrorOf(m) == [ isNull |-> FALSE, message |-> m ]

\* ${lastError?.message}
LastErrorText(e) == IF e.isNull THEN << "undefined" >> ELSE e.message

IdleFrame ==
    [ pc |-> "idle", task |-> Null, operationName |-> Null, args |-> NoArgs,
      apiKey |-> Null, savedModel |-> Null, chain |-> << >>, i |-> 0,
      lastError |-> NullError,
      console |-> << >>, requests |-> << >>, clients |-> 0,
      lastReply |-> NoReply, held |-> << >>,
      retry |-> Pending, out |-> Pending ]

(* --------------------- Retry / Fallback Orchestrator ------------------ *)

\* a generateSpeech without its catch handler
SettleTaskNoCatch(task, p) == p

\* a caller that swallows every rejection
SettleTaskCatchAll(task, p) == IF p.state = "rejected" THEN Resolved("") ELSE p

\* what the task caller's own promise settles to once callAIWithRetry's has:
\* generateSpeech's catch handler turns any rejection into "" (types.ts:162-165),
\* every other caller returns callAIWithRetry's promise (types.ts:172, 223, 234,
\* 321, 366)
SettleTask(task, p) ==
    IF task = "generateSpeech" /\ p.state = "rejected" THEN Resolved("") ELSE p

\* console.error("TTS Final Fail:", err) (types.ts:163)
FinalFailLine(task, p) ==
    IF task = "generateSpeech" /\ p.state = "rejected"
    THEN << [ level |-> "error", text |-> << "TTS Final Fail:" >> \o p.message ] >>
    ELSE << >>

\* callAIWithRetry's promise settles, and with it the task caller's
Finish(fr, p) ==
    [ fr EXCEPT !.pc = "done",
                !.retry = p,
                !.out = SettleTask(fr.task, p),
                !.console = @ \o FinalFailLine(fr.task, p) ]

\* an aggregated error that also names the operation
ExhaustedMessageLabelled(fr) ==
    EXHAUSTED_PREFIX \o << fr.operationName >> \o LastErrorText(fr.lastError)
        \o EXHAUSTED_SUFFIX

\* the message of the Error thrown at types.ts:134
ExhaustedMessage(fr) ==
    EXHAUSTED_PREFIX \o LastErrorText(fr.lastError) \o EXHAUSTED_SUFFIX

\* an attempt whose client is built from the key stored at that moment
AttemptWithCurrentKey(fr) ==
    LET model == fr.chain[fr.i]
    IN [ fr EXCEPT
           !.pc = "await",
           !.console = Append(@, [ level |-> "log",
                                   text |-> << "[", fr.operationName,
                                               "] Attempting with model: ", model >> ]),
           !.clients = @ + 1,
           !.requests = Append(@, [ model |-> model,
                                    apiKey |-> getApiKey(hasWindow, localStorage, env),
                                    operationName |-> fr.operationName,
                                    parts |-> RequestParts(fr.task, fr.args) ]) ]

\* types.ts:124-126 up to the await: log, construct a client, call operationFn,
\* which sends the request for this model
Attempt(fr) ==
    LET model == fr.chain[fr.i]
    IN [ fr EXCEPT
           !.pc = "await",
           !.console = Append(@, [ level |-> "log",
                                   text |-> << "[", fr.operationName,
                                               "] Attempting with model: ", model >> ]),
           !.clients = @ + 1,
           !.requests = Append(@, [ model |-> model, apiKey |-> fr.apiKey,
                                    operationName |-> fr.operationName,
                                    parts |-> RequestParts(fr.task, fr.args) ]) ]

\* a loop that gives up after the first candidate
NextCandidateOnce(fr) ==
    IF fr.i < 1
    THEN Attempt([ fr EXCEPT !.i = @ + 1 ])
    ELSE Finish(fr, Rejected(ExhaustedMessage(fr)))

\* a loop that tries the same candidate again before moving on
NextCandidateRepeat(fr) ==
    IF Len(fr.requests) < Len(fr.chain) + 1
    THEN Attempt([ fr EXCEPT !.i = IF Len(fr.requests) = 1 THEN @ ELSE @ + 1 ])
    ELSE Finish(fr, Rejected(ExhaustedMessage(fr)))

\* a loop that starts the attempts on the next two candidates at once
NextCandidateEager(fr) ==
    IF fr.i + 1 < Len(fr.chain)
    THEN Attempt([ Attempt([ fr EXCEPT !.i = @ + 1 ]) EXCEPT !.i = @ + 1 ])
    ELSE IF fr.i < Len(fr.chain)
    THEN Attempt([ fr EXCEPT !.i = @ + 1 ])
    ELSE Finish(fr, Rejected(ExhaustedMessage(fr)))

\* a loop that skips the candidate after a failed one
NextCandidateSkip(fr) ==
    IF fr.i = 0
    THEN Attempt([ fr EXCEPT !.i = 1 ])
    ELSE IF fr.i + 1 < Len(fr.chain)
    THEN Attempt([ fr EXCEPT !.i = @ + 2 ])
    ELSE Finish(fr, Rejected(ExhaustedMessage(fr)))

\* for (const model of uniqueFallbacks): the next iteration, or the throw after
\* the loop (types.ts:122, 134)
NextCandidate(fr) ==
    IF fr.i < Len(fr.chain)
    THEN Attempt([ fr EXCEPT !.i = @ + 1 ])
    ELSE Finish(fr, Rejected(ExhaustedMessage(fr)))

\* a catch block that waits, before the next candidate, on a delay nothing fires
CatchStall(fr, message) ==
    [ fr EXCEPT !.pc = "stalled", !.lastError = ErrorOf(message) ]

\* a catch block that keeps the first error it saw
CatchKeepFirst(fr, message) ==
    NextCandidate(
        [ fr EXCEPT
            !.console = Append(@, [ level |-> "warn",
                                    text |-> << "[", fr.operationName,
                                                "] Failed with model ", fr.chain[fr.i],
                                                ":" >> \o message ]),
            !.lastError = IF @.isNull THEN ErrorOf(message) ELSE @ ])

\* a catch block that rethrows
CatchRethrow(fr, message) == Finish(fr, Rejected(message))

\* the catch block, types.ts:127-131, and on to the next iteration
Catch(fr, message) ==
    NextCandidate(
        [ fr EXCEPT
            !.console = Append(@, [ level |-> "warn",
                                    text |-> << "[", fr.operationName,
                                                "] Failed with model ", fr.chain[fr.i],
                                                ":" >> \o message ]),
            !.lastError = ErrorOf(message) ])

\* localStorage.getItem('lingua_selected_model'), read only in a browser
\* (types.ts:108-109)
SavedModel(win, ls) == IF win THEN ls[LS_MODEL] ELSE Null

\* an orchestrator that does not check the key
callAIWithRetryNoKeyCheck(task, args, win, ls, penv) ==
    NextCandidate(
        [ IdleFrame EXCEPT !.task = task,
                           !.args = args,
                           !.operationName = OperationName(task),
                           !.apiKey = getApiKey(win, ls, penv),
                           !.savedModel = SavedModel(win, ls),
                           !.chain = CandidateChain(win, ls) ])

\* callAIWithRetry from its call to its first await, types.ts:103-126; args are
\* the arguments operationFn closes over
callAIWithRetry(task, args, win, ls, penv) ==
    LET apiKey == getApiKey(win, ls, penv)
        fr == [ IdleFrame EXCEPT !.task = task,
                                 !.args = args,
                                 !.operationName = OperationName(task),
                                 !.apiKey = apiKey ]
    IN IF ~Truthy(apiKey)
       THEN Finish(fr, Rejected(MISSING_KEY_MESSAGE))
       ELSE NextCandidate([ fr EXCEPT !.savedModel = SavedModel(win, ls),
                                      !.chain = CandidateChain(win, ls) ])

(* ------------------------------ the remote ---------------------------- *)

\* messages of the errors ai.models.generateContent rejects with
RemoteErrors == { << "503 overloaded" >>, << "429 quota exceeded" >> }

\* response.text values the remote returns
TextPlain == << "{", "score:7", ",", "feedback:ok", "}" >>
TextFencedJson ==
    << FENCE, "json", NL, "{", "transcription:t", ",", "response:Hi", "}", NL, FENCE >>
TextFencedBare == << FENCE, NL, "{", "score:7", "}", NL, FENCE >>
TextFencedOtherTag == << FENCE, "js", NL, "{", "score:7", "}", NL, FENCE >>
TextNotJson == << "not", SP, "json" >>
TextEmpty == << >>
TextNoResponse == << "{", "response:", "}" >>

TextSamples ==
    { TextPlain, TextFencedJson, TextFencedBare, TextFencedOtherTag, TextNotJson,
      TextEmpty, TextNoResponse }

\* inlineData.data of the first part of the first candidate, Null when absent
AudioSamples == { Null, "UklGRg==", "T2dnUw==" }

ErrorReplies ==
    { [ ok |-> FALSE, message |-> m, text |-> << >>, audio |-> Null ] : m \in RemoteErrors }
TextReplies ==
    { [ ok |-> TRUE, message |-> << >>, text |-> t, audio |-> Null ] : t \in TextSamples }
AudioReplies ==
    { [ ok |-> TRUE, message |-> << >>, text |-> << >>, audio |-> a ] : a \in AudioSamples }

\* what generateContent can settle with for a request of this task
Replies(task) ==
    ErrorReplies \cup (IF task = "generateSpeech" THEN AudioReplies ELSE TextReplies)

(* ---------------------------- task callers ---------------------------- *)

Threw(m) == [ threw |-> TRUE, message |-> m, value |-> << >> ]
Returned(v) == [ threw |-> FALSE, message |-> << >>, value |-> v ]

\* generateSpeech's operation after its await, types.ts:159-161
SpeechOperation(reply) ==
    IF ~reply.ok THEN Threw(reply.message)
    ELSE IF ~Truthy(reply.audio) THEN Threw(NO_AUDIO_MESSAGE)
    ELSE Returned(reply.audio)

\* a JSON operation that parses leniently
JsonOperationLenient(reply) ==
    IF ~reply.ok THEN Threw(reply.message)
    ELSE Returned(ParseLenient(cleanJsonString(reply.text)).value)

\* a JSON operation that parses response.text without a default for empty text
JsonOperationNoDefault(reply) ==
    IF ~reply.ok THEN Threw(reply.message)
    ELSE LET parsed == JSONparse(cleanJsonString(reply.text))
         IN IF parsed.ok THEN Returned(parsed.value) ELSE Threw(SYNTAX_ERROR_MESSAGE)

\* cleanJsonString(response.text || "{}") and JSON.parse, types.ts:214-215,
\* 298-299, 357-358, 398-399
JsonOperation(reply) ==
    IF ~reply.ok THEN Threw(reply.message)
    ELSE LET jsonText == cleanJsonString(IF reply.text = << >> THEN << "{", "}" >>
                                         ELSE reply.text)
             parsed == JSONparse(jsonText)
         IN IF parsed.ok THEN Returned(parsed.value) ELSE Threw(SYNTAX_ERROR_MESSAGE)

\* the value interactWithExaminer's operation returns, types.ts:308-312
TurnValue(result, aiAudioBase64) ==
    [ userTranscription |-> Or(Field(result, "transcription"), ""),
      aiResponse |-> Field(result, "response"),
      aiAudioBase64 |-> aiAudioBase64 ]

\* the operation of a task once its request has settled with reply
Operation(task, reply) ==
    IF task = "generateSpeech" THEN SpeechOperation(reply) ELSE JsonOperation(reply)

(* ------------------------ response texts at large --------------------- *)

\* the most members an enumerated response object has
MaxMembers == 2

\* the texts of the JSON objects with up to MaxMembers members
ObjectText(members) ==
    LET rec[k \in 0..Len(members)] ==
            IF k = 0 THEN << >>
            ELSE rec[k - 1] \o (IF k = 1 THEN << >> ELSE << "," >>) \o << members[k] >>
    IN << "{" >> \o rec[Len(members)] \o << "}" >>
ObjectTexts ==
    { ObjectText(ms) : ms \in UNION { [ 1..n -> DOMAIN MemberKey ] : n \in 0..MaxMembers } }

\* texts that are not JSON
BrokenTexts == { TextNotJson, << "{", "score:7" >>, << "score:7", "}" >> }

\* how a model wraps its payload: not at all, in a bare fence, or in a fence
\* with a language tag
FenceTags == { "json", "JSON", "js" }
FenceKinds == { "none", "bare" } \cup FenceTags

\* the payload as the model sends it, with or without line breaks inside the fence
Wrap(fence, newlines, payload) ==
    LET nl == IF newlines THEN << NL >> ELSE << >>
    IN IF fence = "none" THEN nl \o payload \o nl
       ELSE << FENCE >> \o (IF fence = "bare" THEN << >> ELSE << fence >>) \o nl
                \o payload \o nl \o << FENCE >>

ParserIdle ==
    [ phase |-> "idle", fence |-> "none", payload |-> << >>, raw |-> << >>,
      result |-> Threw(<< >>) ]

(* ----------------------------- SettingsModal -------------------------- *)

\* the modal before it is first opened: not rendered (part_000:21), the key
\* field empty and the default model selected
ModalClosed == [ isOpen |-> FALSE, apiKey |-> "", selectedModel |-> DEFAULT_MODEL ]

\* what the user can type into the key field
TypedKeys == { "", "AIzaTyped" }

(* ------------------------------- actions ------------------------------ *)

Init ==
    /\ hasWindow \in BOOLEAN
    /\ localStorage \in
         [ { LS_KEY, LS_MODEL } ->
             { Null, "", "AIzaStored", "gpt-4" } \cup Range(SUPPORTED_MODELS) ]
    /\ localStorage[LS_KEY] \in { Null, "", "AIzaStored" }
    /\ hasWindow = FALSE => localStorage = [ k \in { LS_KEY, LS_MODEL } |-> Null ]
    /\ env \in [ API_KEY : { Null, "AIzaEnv" }, GEMINI_API_KEY : { Null, "AIzaGemini" } ]
    /\ frames = [ f \in { "outer", "nested" } |-> IdleFrame ]
    /\ calls = 0
    /\ parser = ParserIdle
    /\ modal = ModalClosed

\* a caller that also persists the model it resolved
InvokePersistingModel(task, args) ==
    /\ frames["outer"].pc \in { "idle", "done" }
    /\ calls < MaxCalls
    /\ calls' = calls + 1
    /\ frames' = [ outer |-> callAIWithRetry(task, args, hasWindow, localStorage, env),
                   nested |-> IdleFrame ]
    /\ localStorage' = [ localStorage EXCEPT ![LS_MODEL] = PreferredModel(hasWindow, localStorage) ]
    /\ UNCHANGED << hasWindow, env, parser, modal >>

\* the UI calls a task caller with args; it runs to its first await
Invoke(task, args) ==
    /\ frames["outer"].pc \in { "idle", "done" }
    /\ calls < MaxCalls
    /\ calls' = calls + 1
    /\ frames' = [ outer |-> callAIWithRetry(task, args, hasWindow, localStorage, env),
                   nested |-> IdleFrame ]
    /\ UNCHANGED << hasWindow, localStorage, env, parser, modal >>

\* the request in flight of frame f settles with reply, and the operation and
\* the orchestrator run on to the next await or to the end
Settle(f, reply) ==
    LET fr == [ frames[f] EXCEPT !.lastReply = reply ]
        r == Operation(fr.task, reply)
    IN /\ frames[f].pc = "await"
       /\ reply \in Replies(fr.task)
       /\ frames' =
            IF r.threw
            THEN [ frames EXCEPT ![f] = Catch(fr, r.message) ]
            ELSE IF fr.task = "interactWithExaminer"
            THEN IF Truthy(Field(r.value, "response"))
                 THEN \* aiAudioBase64 = await generateSpeech(result.response)
                      [ outer |-> [ fr EXCEPT !.pc = "speech", !.held = r.value ],
                        nested |-> callAIWithRetry("generateSpeech", NoArgs, hasWindow,
                                                   localStorage, env) ]
                 ELSE [ frames EXCEPT ![f] = Finish(fr, Resolved(TurnValue(r.value, ""))) ]
            ELSE [ frames EXCEPT ![f] = Finish(fr, Resolved(r.value)) ]
       /\ UNCHANGED << hasWindow, localStorage, env, calls, parser, modal >>

\* the nested generateSpeech has settled and interactWithExaminer's operation
\* resumes after its await, types.ts:305-312
ResumeTurn ==
    LET fr == frames["outer"]
        speech == frames["nested"].out
    IN /\ fr.pc = "speech"
       /\ frames["nested"].pc = "done"
       /\ frames' =
            [ frames EXCEPT
                !["outer"] =
                    IF speech.state = "rejected"
                    THEN Catch(fr, speech.message)
                    ELSE Finish(fr, Resolved(TurnValue(fr.held, speech.value))) ]
       /\ UNCHANGED << hasWindow, localStorage, env, calls, parser, modal >>

\* the arguments the callers are invoked with: an interview turn in the middle
\* of a session, with the student's audio
MidTurnArgs ==
    [ userAudioBase64 |-> "GkXfo59ChoEB", specificQuestion |-> Null, isFinish |-> FALSE ]
ArgsOf(task) == IF task = "interactWithExaminer" THEN { MidTurnArgs } ELSE { NoArgs }

Next ==
    \/ \E task \in Tasks : \E args \in ArgsOf(task) : Invoke(task, args)
    \/ \E f \in { "outer", "nested" } : \E reply \in ErrorReplies \cup TextReplies \cup AudioReplies :
          Settle(f, reply)
    \/ ResumeTurn

Spec == Init /\ [][Next]_vars

\* interview turns with every combination of arguments, in a browser that
\* holds a key
InitTurn ==
    /\ hasWindow = TRUE
    /\ localStorage \in [ { LS_KEY, LS_MODEL } -> { Null, "AIzaStored", "gemini-2.5-flash" } ]
    /\ localStorage[LS_KEY] = "AIzaStored"
    /\ localStorage[LS_MODEL] \in { Null, "gemini-2.5-flash" }
    /\ env = [ API_KEY |-> Null, GEMINI_API_KEY |-> Null ]
    /\ frames = [ f \in { "outer", "nested" } |-> IdleFrame ]
    /\ calls = 0
    /\ parser = ParserIdle
    /\ modal = ModalClosed

NextTurn ==
    \/ \E args \in TurnArgs : Invoke("interactWithExaminer", args)
    \/ \E f \in { "outer", "nested" } : \E reply \in ErrorReplies \cup TextReplies \cup AudioReplies :
          Settle(f, reply)
    \/ ResumeTurn

SpecTurn == InitTurn /\ [][NextTurn]_vars

\* a response text arrives at a JSON task caller
InitParser ==
    /\ hasWindow = TRUE
    /\ localStorage = [ k \in { LS_KEY, LS_MODEL } |-> Null ]
    /\ env = [ API_KEY |-> Null, GEMINI_API_KEY |-> Null ]
    /\ frames = [ f \in { "outer", "nested" } |-> IdleFrame ]
    /\ calls = 0
    /\ modal = ModalClosed
    /\ \E fence \in FenceKinds, newlines \in BOOLEAN, payload \in ObjectTexts \cup BrokenTexts :
          parser = [ phase |-> "received", fence |-> fence, payload |-> payload,
                     raw |-> Wrap(fence, newlines, payload), result |-> Threw(<< >>) ]

\* the caller cleans and parses the text, types.ts:214-215
ParseResponse ==
    /\ parser.phase = "received"
    /\ parser' =
         [ parser EXCEPT
             !.phase = "parsed",
             !.result = JsonOperation([ ok |-> TRUE, message |-> << >>,
                                        text |-> parser.raw, audio |-> Null ]) ]
    /\ UNCHANGED << hasWindow, localStorage, env, frames, calls, modal >>

SpecParser == InitParser /\ [][ParseResponse]_vars

\* a browser session in which every dispatched attempt eventually settles and
\* the continuation of a settled await eventually runs
InitLive ==
    /\ hasWindow = TRUE
    /\ localStorage \in [ { LS_KEY, LS_MODEL } -> { Null, "AIzaStored" } ]
    /\ localStorage[LS_MODEL] = Null
    /\ env = [ API_KEY |-> Null, GEMINI_API_KEY |-> Null ]
    /\ frames = [ f \in { "outer", "nested" } |-> IdleFrame ]
    /\ calls = 0
    /\ parser = ParserIdle
    /\ modal = ModalClosed

EverySettle(f) ==
    \E reply \in ErrorReplies \cup TextReplies \cup AudioReplies : Settle(f, reply)

Fairness ==
    /\ \A f \in { "outer", "nested" } : WF_vars(EverySettle(f))
    /\ WF_vars(ResumeTurn)

SpecLive == InitLive /\ [][Next]_vars /\ Fairness

\* the parent renders the modal (isOpen becomes true)
OpenSettings ==
    /\ hasWindow
    /\ ~modal.isOpen
    /\ modal' = [ modal EXCEPT !.isOpen = TRUE ]
    /\ UNCHANGED << hasWindow, localStorage, env, frames, calls, parser >>

\* onChange of the key field: setApiKey(e.target.value), part_000:55-61
TypeKey(key) ==
    /\ modal.isOpen
    /\ modal' = [ modal EXCEPT !.apiKey = key ]
    /\ UNCHANGED << hasWindow, localStorage, env, frames, calls, parser >>

\* onClick of a model card: setSelectedModel(model.id), part_000:78-81
SelectModel(k) ==
    /\ modal.isOpen
    /\ modal' = [ modal EXCEPT !.selectedModel = SUPPORTED_MODELS[k] ]
    /\ UNCHANGED << hasWindow, localStorage, env, frames, calls, parser >>

\* Cancel and the header's close button: onClose, part_000:41, 112-113
CloseSettings ==
    /\ modal.isOpen
    /\ modal' = [ modal EXCEPT !.isOpen = FALSE ]
    /\ UNCHANGED << hasWindow, localStorage, env, frames, calls, parser >>

\* a Save button that is enabled whatever the key field holds
handleSaveAlways ==
    /\ modal.isOpen
    /\ localStorage' = [ localStorage EXCEPT ![LS_KEY] = modal.apiKey,
                                             ![LS_MODEL] = modal.selectedModel ]
    /\ modal' = [ modal EXCEPT !.isOpen = FALSE ]
    /\ UNCHANGED << hasWindow, env, frames, calls, parser >>

\* a Save that persists the key only
handleSaveKeyOnly ==
    /\ modal.isOpen
    /\ Truthy(modal.apiKey)
    /\ localStorage' = [ localStorage EXCEPT ![LS_KEY] = modal.apiKey ]
    /\ modal' = [ modal EXCEPT !.isOpen = FALSE ]
    /\ UNCHANGED << hasWindow, env, frames, calls, parser >>

\* Save Configuration, enabled while the key field is not empty:
\* part_000:23-29, 118-120
handleSave ==
    /\ modal.isOpen
    /\ Truthy(modal.apiKey)
    /\ localStorage' = [ localStorage EXCEPT ![LS_KEY] = modal.apiKey,
                                             ![LS_MODEL] = modal.selectedModel ]
    /\ modal' = [ modal EXCEPT !.isOpen = FALSE ]
    /\ UNCHANGED << hasWindow, env, frames, calls, parser >>

\* a session in which the settings are edited between and during invocations
InitSettings ==
    /\ hasWindow = TRUE
    /\ localStorage \in [ { LS_KEY, LS_MODEL } -> { Null, "AIzaStored", "gpt-4" } ]
    /\ localStorage[LS_KEY] \in { Null, "AIzaStored" }
    /\ localStorage[LS_MODEL] \in { Null, "gpt-4" }
    /\ env = [ API_KEY |-> Null, GEMINI_API_KEY |-> Null ]
    /\ frames = [ f \in { "outer", "nested" } |-> IdleFrame ]
    /\ calls = 0
    /\ parser = ParserIdle
    /\ modal = ModalClosed

\* the replies of a session with settings: one failure and one success per kind
SettingsReplies ==
    { r \in ErrorReplies : r.message = << "503 overloaded" >> }
      \cup { r \in TextReplies : r.text = TextFencedJson }
      \cup { r \in AudioReplies : r.audio = "UklGRg==" }

NextSettings ==
    \/ \E task \in { "analyzeWriting", "interactWithExaminer", "generateSpeech" } :
          \E args \in ArgsOf(task) : Invoke(task, args)
    \/ \E f \in { "outer", "nested" } : \E reply \in SettingsReplies : Settle(f, reply)
    \/ ResumeTurn
    \/ OpenSettings
    \/ \E key \in TypedKeys : TypeKey(key)
    \/ \E k \in DOMAIN SUPPORTED_MODELS : SelectModel(k)
    \/ CloseSettings
    \/ handleSave

SpecSettings == InitSettings /\ [][NextSettings]_vars

\* the modal on its own: the parent hands it any key text and any model of type
\* AIModelType (types.ts:51), and the user opens, edits, cancels and saves
InitModal ==
    /\ hasWindow = TRUE
    /\ localStorage \in [ { LS_KEY, LS_MODEL } -> { Null, "AIzaStored", "gpt-4" } ]
    /\ localStorage[LS_KEY] \in { Null, "AIzaStored" }
    /\ localStorage[LS_MODEL] \in { Null, "gpt-4" }
    /\ env = [ API_KEY |-> Null, GEMINI_API_KEY |-> Null ]
    /\ frames = [ f \in { "outer", "nested" } |-> IdleFrame ]
    /\ calls = 0
    /\ parser = ParserIdle
    /\ modal \in [ isOpen : { FALSE }, apiKey : { "", "AIzaStored" },
                   selectedModel : Range(SUPPORTED_MODELS) ]

NextModal ==
    \/ OpenSettings
    \/ \E key \in TypedKeys : TypeKey(key)
    \/ \E k \in DOMAIN SUPPORTED_MODELS : SelectModel(k)
    \/ CloseSettings
    \/ handleSave

SpecModal == InitModal /\ [][NextModal]_vars

(* ------------------------------ properties ---------------------------- *)

Frames == { "outer", "nested" }

\* the invocations of callAIWithRetry that have started
Started == { f \in Frames : frames[f].pc # "idle" }

\* the attempts of a frame that have failed: one console.warn each
Failures(fr) == Len(SelectSeq(fr.console, LAMBDA line : line.level = "warn"))

IsMissingCredential(p) == p.state = "rejected" /\ p.message = MISSING_KEY_MESSAGE
IsExhausted(p) ==
    /\ p.state = "rejected"
    /\ Len(p.message) >= 1
    /\ << p.message[1] >> = EXHAUSTED_PREFIX

\* C1: when getApiKey() returned the empty string, callAIWithRetry has rejected
\* with the missing-credential error, has constructed no client and has sent
\* no request, whatever the persisted model preference is.
C1_MissingKeyFailsFast ==
    \A f \in Started :
        frames[f].apiKey = "" =>
            /\ frames[f].pc = "done"
            /\ IsMissingCredential(frames[f].retry)
            /\ frames[f].clients = 0
            /\ frames[f].requests = << >>
            /\ Failures(frames[f]) = 0

C1_Witness ==
    /\ frames["outer"].pc = "done"
    /\ frames["outer"].apiKey = ""
    /\ localStorage[LS_MODEL] = "gemini-2.5-flash"
    /\ IsMissingCredential(frames["outer"].retry)

\* the value the operation of frame fr returns for its last reply
LastResult(f) ==
    LET fr == frames[f]
        r == Operation(fr.task, fr.lastReply)
    IN IF fr.task = "interactWithExaminer"
       THEN TurnValue(r.value, IF Truthy(Field(r.value, "response"))
                               THEN frames["nested"].out.value ELSE "")
       ELSE r.value

\* C2: when callAIWithRetry resolves after N-1 failed attempts, it has made
\* exactly N attempts, on the first N candidates of the chain in order, and it
\* resolves with the result of the Nth attempt.
C2_FirstSuccessWins ==
    \A f \in Started :
        LET fr == frames[f]
            N == Failures(fr) + 1
        IN fr.retry.state = "resolved" =>
            /\ fr.pc = "done"
            /\ N \in 1..Len(fr.chain)
            /\ Len(fr.requests) = N
            /\ fr.clients = N
            /\ \A k \in 1..N : fr.requests[k].model = fr.chain[k]
            /\ ~Operation(fr.task, fr.lastReply).threw
            /\ fr.retry.value = LastResult(f)

C2_Witness ==
    /\ frames["outer"].retry.state = "resolved"
    /\ frames["outer"].task = "analyzeWriting"
    /\ Failures(frames["outer"]) = 2
    /\ Len(frames["outer"].requests) = 3
    /\ frames["outer"].retry.value = JsonObject(TextPlain)

\* C3: callAIWithRetry rejects with the exhausted-fallback error exactly when
\* the operation has failed for every candidate, after exactly
\* Len(CandidateChain) attempts; it never makes more attempts than that.
C3_ExhaustedAfterWholeChain ==
    \A f \in Started :
        LET fr == frames[f]
        IN /\ Len(fr.requests) <= Len(fr.chain)
           /\ IsExhausted(fr.retry) =>
                /\ Len(fr.requests) = Len(fr.chain)
                /\ Failures(fr) = Len(fr.chain)
                /\ \A k \in 1..Len(fr.chain) : fr.requests[k].model = fr.chain[k]
           /\ (fr.chain # << >> /\ Failures(fr) = Len(fr.chain)) =>
                /\ fr.pc = "done"
                /\ IsExhausted(fr.retry)

C3_Witness ==
    /\ IsExhausted(frames["outer"].retry)
    /\ Len(frames["outer"].requests) = 3
    /\ Failures(frames["outer"]) = 3

\* the invocations that have built their CandidateChain
Chained == { f \in Started : frames[f].chain # << >> }

NoDuplicates(xs) == \A j, k \in DOMAIN xs : xs[j] = xs[k] => j = k

\* the model the claims expect at the head of the chain
ExpectedHead(fr) ==
    IF fr.savedModel \in
         { "gemini-3-flash-preview", "gemini-3-pro-preview", "gemini-2.5-flash" }
    THEN fr.savedModel
    ELSE "gemini-3-flash-preview"

\* C4: for every persisted preference value the CandidateChain has no
\* duplicate, and its first element is the persisted preference when that is
\* one of the supported models, otherwise 'gemini-3-flash-preview'.
C4_ChainHeadAndNoDuplicates ==
    \A f \in Started :
        LET fr == frames[f]
        IN Truthy(fr.apiKey) =>
            /\ fr.chain # << >>
            /\ NoDuplicates(fr.chain)
            /\ fr.chain[1] = ExpectedHead(fr)

C4_Witness ==
    /\ frames["outer"].pc = "await"
    /\ frames["outer"].savedModel = "gpt-4"
    /\ frames["outer"].chain[1] = "gemini-3-flash-preview"
    /\ Len(frames["outer"].chain) = 3

\* C5: the CandidateChain is the preferred model followed by the other models
\* of FALLBACK_ORDER in FALLBACK_ORDER's order; the preference
\* 'gemini-2.5-flash' yields 2.5-flash, 3-flash-preview, 3-pro-preview.
C5_ChainOrder ==
    \A f \in Chained :
        LET fr == frames[f]
            head == ExpectedHead(fr)
        IN /\ fr.chain =
                << head >> \o SelectSeq(FALLBACK_ORDER, LAMBDA m : m # head)
           /\ fr.savedModel = "gemini-2.5-flash" =>
                fr.chain = << "gemini-2.5-flash", "gemini-3-flash-preview",
                              "gemini-3-pro-preview" >>
           /\ fr.savedModel = "gemini-3-pro-preview" =>
                fr.chain = << "gemini-3-pro-preview", "gemini-3-flash-preview",
                              "gemini-2.5-flash" >>

C5_Witness ==
    /\ frames["outer"].savedModel = "gemini-2.5-flash"
    /\ frames["outer"].chain =
         << "gemini-2.5-flash", "gemini-3-flash-preview", "gemini-3-pro-preview" >>
    /\ Len(frames["outer"].requests) = 3

\* C6 as stated: when every candidate fails, the aggregated error includes
\* the operation label passed to the invocation.
C6_ErrorNamesOperation ==
    \A f \in Started :
        IsExhausted(frames[f].retry) =>
            Includes(frames[f].retry.message, << frames[f].operationName >>)

\* C6 as amended: when every candidate fails, the aggregated error is the
\* fixed text around the last recorded error message and does not include the
\* operation label; the label is only written to the console, in the line of
\* every attempt and of every failure.
C6_ErrorOmitsOperation ==
    \A f \in Started :
        LET fr == frames[f]
        IN IsExhausted(fr.retry) =>
            /\ ~Includes(fr.retry.message, << fr.operationName >>)
            /\ fr.retry.message =
                 EXHAUSTED_PREFIX \o fr.lastError.message \o EXHAUSTED_SUFFIX
            /\ ~fr.lastError.isNull
            /\ \A k \in DOMAIN fr.console :
                  fr.console[k].level \in { "log", "warn" } =>
                      Includes(fr.console[k].text, << fr.operationName >>)

C6_Witness ==
    /\ IsExhausted(frames["outer"].retry)
    /\ frames["outer"].operationName = "analyzeWriting"
    /\ Len(frames["outer"].console) = 6

\* the error messages console.warn has recorded, in order
WarnedMessages(fr) ==
    LET warns == SelectSeq(fr.console, LAMBDA line : line.level = "warn")
    IN [ k \in DOMAIN warns |-> SubSeq(warns[k].text, 6, Len(warns[k].text)) ]

\* C7: when every candidate fails, the aggregated error's message contains
\* the error message of the attempt on the final element of CandidateChain,
\* and of an earlier attempt only when that message is the same.
C7_LastErrorSurfaced ==
    \A f \in Started :
        LET fr == frames[f]
            errs == WarnedMessages(fr)
            last == Operation(fr.task, fr.lastReply)
        IN IsExhausted(fr.retry) =>
            /\ fr.requests[Len(fr.requests)].model = fr.chain[Len(fr.chain)]
            /\ last.threw
            /\ errs[Len(errs)] = last.message
            /\ fr.retry.message = EXHAUSTED_PREFIX \o last.message \o EXHAUSTED_SUFFIX
            /\ \A k \in DOMAIN errs :
                  errs[k] # last.message => ~Includes(fr.retry.message, errs[k])

C7_Witness ==
    /\ IsExhausted(frames["outer"].retry)
    /\ WarnedMessages(frames["outer"]) =
         << << "503 overloaded" >>, SYNTAX_ERROR_MESSAGE, << "429 quota exceeded" >> >>
    /\ Includes(frames["outer"].retry.message, << "429 quota exceeded" >>)

\* the generateSpeech invocations that have started
Speeches == { f \in Started : frames[f].task = "generateSpeech" }

\* C8: generateSpeech never rejects: when callAIWithRetry rejects (every
\* candidate failed with a remote error or a response without audio data, or
\* no key was found) its caller receives the empty string, and when a candidate
\* succeeds its caller receives that candidate's non-empty audio payload.
C8_SpeechNeverRejects ==
    \A f \in Speeches :
        LET fr == frames[f]
        IN /\ fr.out.state # "rejected"
           /\ fr.pc = "done" <=> fr.out.state = "resolved"
           /\ Failures(fr) = Len(fr.chain) /\ fr.pc = "done" =>
                /\ fr.retry.state = "rejected"
                /\ fr.out.value = ""
           /\ fr.retry.state = "resolved" =>
                /\ fr.lastReply.ok
                /\ fr.out.value = fr.lastReply.audio
                /\ fr.out.value \notin { Null, "" }
                /\ fr.requests[Len(fr.requests)].model = fr.chain[Failures(fr) + 1]

C8_Witness ==
    /\ frames["outer"].task = "generateSpeech"
    /\ Failures(frames["outer"]) = 3
    /\ IsExhausted(frames["outer"].retry)
    /\ frames["outer"].lastReply.ok
    /\ frames["outer"].out.state = "resolved"
    /\ frames["outer"].out.value = ""

\* C9 as stated: when no API key is resolvable, every task caller,
\* generateSpeech included, rejects with the missing-credential error.
C9_EveryCallerRejects ==
    \A f \in Started :
        frames[f].apiKey = "" => IsMissingCredential(frames[f].out)

\* C9 as amended: when no API key is resolvable, analyzeWriting,
\* interactWithExaminer, gradeSpeakingSession, analyzePronunciation and
\* analyzeSpeaking reject with the missing-credential error, and generateSpeech
\* resolves with the empty string.
C9_JsonCallersReject ==
    \A f \in Started :
        LET fr == frames[f]
        IN fr.apiKey = "" =>
            /\ IsMissingCredential(fr.retry)
            /\ fr.task \in JsonTasks => IsMissingCredential(fr.out)
            /\ fr.task = "generateSpeech" =>
                  fr.out.state = "resolved" /\ fr.out.value = ""

C9_Witness ==
    /\ frames["outer"].task = "generateSpeech"
    /\ frames["outer"].apiKey = ""
    /\ frames["outer"].out.state = "resolved"
    /\ frames["outer"].requests = << >>
    /\ IsMissingCredential(frames["outer"].retry)

\* whether a reply carries text that is not valid JSON after fence stripping
MalformedJson(reply) ==
    /\ reply.ok
    /\ reply.text # << >>
    /\ ~IsJsonObject(Trim(StripFences(reply.text)))

\* C10: in the JSON task callers a response whose text is not valid JSON after
\* fence stripping is a failed attempt: the orchestrator records the parse
\* error and goes on to the next candidate, and the caller sees the parse error
\* only inside the exhausted-fallback error, when the attempt was the last.
C10_MalformedJsonFallsBack ==
    \A f \in Started :
        LET fr == frames[f]
        IN (fr.task \in JsonTasks /\ MalformedJson(fr.lastReply)) =>
            /\ fr.lastError = ErrorOf(SYNTAX_ERROR_MESSAGE)
            /\ Failures(fr) >= 1
            /\ fr.retry.state # "resolved"
            /\ IF Failures(fr) < Len(fr.chain)
               THEN /\ fr.pc = "await"
                    /\ fr.out.state = "pending"
                    /\ Len(fr.requests) = Failures(fr) + 1
                    /\ fr.requests[Len(fr.requests)].model = fr.chain[Failures(fr) + 1]
               ELSE /\ fr.pc = "done"
                    /\ fr.out.state = "rejected"
                    /\ fr.out.message =
                         EXHAUSTED_PREFIX \o SYNTAX_ERROR_MESSAGE \o EXHAUSTED_SUFFIX

C10_Witness ==
    /\ frames["outer"].task = "interactWithExaminer"
    /\ frames["outer"].lastReply.text = TextFencedOtherTag
    /\ frames["outer"].pc = "await"
    /\ Len(frames["outer"].requests) = 2

\* the messages of the errors a single attempt can end with
AttemptErrors == RemoteErrors \cup { SYNTAX_ERROR_MESSAGE, NO_AUDIO_MESSAGE }

\* C11: an invocation of callAIWithRetry is settled exactly when it is done,
\* and then in exactly one of three ways: resolved with the result of its last
\* attempt, rejected with the missing-credential error, or rejected with the
\* exhausted-fallback error; it never rejects with the error of an attempt.
C11_ThreeOutcomes ==
    \A f \in Started :
        LET fr == frames[f]
            p == fr.retry
        IN /\ fr.pc = "done" <=> p.state # "pending"
           /\ p.state = "resolved" =>
                /\ ~Operation(fr.task, fr.lastReply).threw
                /\ p.value = LastResult(f)
           /\ p.state = "rejected" =>
                /\ IsMissingCredential(p) \/ IsExhausted(p)
                /\ ~(IsMissingCredential(p) /\ IsExhausted(p))
                /\ p.message \notin AttemptErrors
                /\ IsMissingCredential(p) <=> fr.requests = << >>

C11_Witness ==
    /\ frames["outer"].pc = "done"
    /\ frames["outer"].task = "analyzePronunciation"
    /\ ~frames["outer"].lastReply.ok
    /\ Failures(frames["outer"]) = 3
    /\ IsExhausted(frames["outer"].retry)

\* C13: getApiKey returns the locally persisted key when it is present and
\* non-empty, otherwise API_KEY of the process configuration when set,
\* otherwise GEMINI_API_KEY when set, otherwise the empty string.
C13_KeyPrecedence ==
    \A f \in Started :
        frames[f].apiKey =
            IF localStorage[LS_KEY] \notin { Null, "" } THEN localStorage[LS_KEY]
            ELSE IF env.API_KEY \notin { Null, "" } THEN env.API_KEY
            ELSE IF env.GEMINI_API_KEY \notin { Null, "" } THEN env.GEMINI_API_KEY
            ELSE ""

C13_Witness ==
    /\ frames["outer"].pc = "await"
    /\ localStorage[LS_KEY] = "AIzaStored"
    /\ env.API_KEY = "AIzaEnv"
    /\ env.GEMINI_API_KEY = "AIzaGemini"
    /\ frames["outer"].apiKey = "AIzaStored"

\* the attempts of a frame that have started and those that have settled
AttemptsStarted(fr) == Len(fr.requests)
AttemptsSettled(fr) == Failures(fr) + (IF fr.retry.state = "resolved" THEN 1 ELSE 0)

\* C15: in one invocation of callAIWithRetry at most one attempt is in flight,
\* and whenever an attempt is started every attempt before it has failed.
C15_OneAttemptInFlight ==
    \A f \in Started :
        LET fr == frames[f]
            inFlight == AttemptsStarted(fr) - AttemptsSettled(fr)
        IN /\ inFlight \in { 0, 1 }
           /\ inFlight = 1 <=> fr.pc \in { "await", "speech" }
           /\ AttemptsStarted(fr) >= 1 => Failures(fr) >= AttemptsStarted(fr) - 1

C15_Witness ==
    /\ frames["outer"].pc = "await"
    /\ AttemptsStarted(frames["outer"]) = 3
    /\ AttemptsSettled(frames["outer"]) = 2

\* the models a frame has attempted so far, in order
Attempted(fr) == [ k \in DOMAIN fr.requests |-> fr.requests[k].model ]

\* C16: at every point of an invocation the models attempted so far are a
\* prefix of its CandidateChain: tried in chain order, none skipped, none twice.
C16_AttemptsArePrefix ==
    \A f \in Started :
        LET fr == frames[f]
            tried == Attempted(fr)
        IN /\ Len(tried) <= Len(fr.chain)
           /\ tried = SubSeq(fr.chain, 1, Len(tried))
           /\ NoDuplicates(tried)
           /\ fr.pc = "await" => fr.i = Len(tried)

C16_Witness ==
    /\ frames["outer"].savedModel = "gemini-3-pro-preview"
    /\ Attempted(frames["outer"]) =
         << "gemini-3-pro-preview", "gemini-3-flash-preview", "gemini-2.5-flash" >>

\* C20: for every persisted preference the CandidateChain is a permutation of
\* FALLBACK_ORDER: three distinct supported models; no attempt is made on a
\* model outside the supported set and no invocation makes more than three.
C20_ChainIsPermutation ==
    \A f \in Chained :
        LET fr == frames[f]
        IN /\ Len(fr.chain) = 3
           /\ Range(fr.chain) = Range(FALLBACK_ORDER)
           /\ \A k \in DOMAIN fr.chain : IsSupported(fr.chain[k])
           /\ \A k \in DOMAIN fr.requests : IsSupported(fr.requests[k].model)
           /\ Len(fr.requests) <= 3
           /\ fr.clients <= 3

C20_Witness ==
    /\ frames["nested"].pc = "done"
    /\ frames["nested"].savedModel = "gpt-4"
    /\ Len(frames["nested"].requests) = 3
    /\ Range(frames["nested"].chain) = Range(SUPPORTED_MODELS)

\* C17: in interactWithExaminer, when the text attempt of a candidate succeeds
\* with a non-empty response and the nested generateSpeech fails on every
\* candidate of its own chain, the turn resolves with that candidate's
\* transcription and response and an empty aiAudioBase64: the text attempt has
\* not failed and the outer invocation has attempted no further candidate.
C17_SpeechFailureIsIsolated ==
    LET turn == frames["outer"]
        speech == frames["nested"]
        result == JsonOperation(turn.lastReply).value
    IN IsExhausted(speech.retry) =>
        /\ turn.task = "interactWithExaminer"
        /\ turn.pc \in { "speech", "done" }
        /\ Len(speech.requests) = Len(speech.chain)
        /\ Truthy(Field(result, "response"))
        /\ AttemptsStarted(turn) = Failures(turn) + 1
        /\ turn.requests[Len(turn.requests)].model = turn.chain[turn.i]
        /\ turn.pc = "done" =>
             /\ turn.retry.state = "resolved"
             /\ turn.out.state = "resolved"
             /\ turn.out.value.aiResponse = Field(result, "response")
             /\ turn.out.value.userTranscription = Or(Field(result, "transcription"), "")
             /\ turn.out.value.aiAudioBase64 = ""

C17_Witness ==
    /\ frames["outer"].pc = "done"
    /\ IsExhausted(frames["nested"].retry)
    /\ Failures(frames["nested"]) = 3
    /\ Failures(frames["outer"]) = 1
    /\ frames["outer"].out.state = "resolved"
    /\ frames["outer"].out.value =
         [ userTranscription |-> "t", aiResponse |-> "Hi", aiAudioBase64 |-> "" ]

\* the sentences of the prompt of a request
PromptOf(request) ==
    LET texts == SelectSeq(request.parts, LAMBDA part : part.kind = "text")
    IN Range(texts[1].data)

\* whether a request asks for a closing statement and for no question
AsksForClosingOnly(request) ==
    /\ "2. Generate a brief polite closing statement" \in PromptOf(request)
    /\ "Do NOT ask another question." \in PromptOf(request)
    /\ PromptOf(request) \cap AskSentences = { }

\* the interview turns that have started, and their requests
Turns == { f \in Started : frames[f].task = "interactWithExaminer" }

\* C14 as stated: in final-turn mode every request of interactWithExaminer
\* asks for a closing statement and no further question, with or without user
\* audio, with or without a specific question.
C14_FinalTurnAlwaysCloses ==
    \A f \in Turns :
        frames[f].args.isFinish =>
            \A k \in DOMAIN frames[f].requests : AsksForClosingOnly(frames[f].requests[k])

\* C14 as amended: in final-turn mode with user audio every request of
\* interactWithExaminer carries the audio and asks for a closing statement and
\* no further question, with or without a specific question; without user
\* audio isFinish has no effect: the request is the opening of the interview
\* and asks a question.
C14_FinalTurnClosesAfterAudio ==
    \A f \in Turns :
        LET fr == frames[f]
        IN fr.args.isFinish =>
            \A k \in DOMAIN fr.requests :
                LET request == fr.requests[k]
                IN IF fr.args.userAudioBase64 \notin { Null, "" }
                   THEN /\ AsksForClosingOnly(request)
                        /\ request.parts[1] =
                             [ kind |-> "inlineData", data |-> << fr.args.userAudioBase64 >> ]
                        /\ fr.args.specificQuestion \notin PromptOf(request)
                   ELSE /\ "Start the interview." \in PromptOf(request)
                        /\ PromptOf(request) \cap AskSentences # { }
                        /\ "2. Generate a brief polite closing statement"
                             \notin PromptOf(request)
                        /\ Len(request.parts) = 1

C14_Witness ==
    /\ frames["outer"].task = "interactWithExaminer"
    /\ frames["outer"].args =
         [ userAudioBase64 |-> "GkXfo59ChoEB",
           specificQuestion |-> "Do you work or study?", isFinish |-> TRUE ]
    /\ Len(frames["outer"].requests) = 2
    /\ AsksForClosingOnly(frames["outer"].requests[2])

\* C12 as stated: cleanJsonString followed by JSON.parse yields the payload's
\* object for a JSON payload that is unfenced, in a bare fence or in a fence
\* with any language tag, and fails with a parse error on text that is not JSON.
C12_AnyFenceParses ==
    parser.phase = "parsed" =>
        IF parser.payload \in ObjectTexts
        THEN /\ ~parser.result.threw
             /\ parser.result.value = JsonObject(parser.payload)
        ELSE /\ parser.result.threw
             /\ parser.result.message = SYNTAX_ERROR_MESSAGE

\* C12 as amended: cleanJsonString followed by JSON.parse yields the payload's
\* object for a JSON payload that is unfenced, in a bare fence or in a fence
\* tagged json; a fence with another language tag leaves the tag in the text,
\* which then fails with a parse error, as does text that is not JSON.
C12_JsonOrBareFenceParses ==
    parser.phase = "parsed" =>
        IF parser.payload \in ObjectTexts /\ parser.fence \in { "none", "bare", "json" }
        THEN /\ ~parser.result.threw
             /\ parser.result.value = JsonObject(parser.payload)
        ELSE /\ parser.result.threw
             /\ parser.result.message = SYNTAX_ERROR_MESSAGE

C12_Witness ==
    /\ parser.phase = "parsed"
    /\ parser.fence = "json"
    /\ parser.raw =
         << FENCE, "json", NL, "{", "score:7", ",", "feedback:ok", "}", NL, FENCE >>
    /\ ~parser.result.threw
    /\ parser.result.value = [ score |-> "7", feedback |-> "ok" ]

\* C18: callAIWithRetry and the task callers only read the persisted key and
\* model preference: the only step that changes localStorage is the
\* SettingsModal's Save, and no step of an invocation changes it.
C18_OnlySaveWrites ==
    [][ /\ localStorage' # localStorage => handleSave
        /\ frames' # frames => localStorage' = localStorage ]_vars

C18_Witness ==
    /\ calls = 2
    /\ frames["outer"].pc = "done"
    /\ frames["outer"].apiKey = "AIzaTyped"
    /\ frames["outer"].savedModel = "gemini-3-pro-preview"
    /\ localStorage = [ lingua_api_key |-> "AIzaTyped",
                        lingua_selected_model |-> "gemini-3-pro-preview" ]

\* C19: provided every dispatched attempt eventually settles, every invocation
\* that is waiting (on an attempt or on its nested speech call) eventually
\* resolves or rejects; and there is no timeout: a frame that awaits an attempt
\* moves only when that attempt settles.
Settled(f) ==
    /\ frames[f].pc = "done"
    /\ frames[f].out.state \in { "resolved", "rejected" }

C19_EveryInvocationSettles ==
    /\ \A f \in { "outer", "nested" } :
          (frames[f].pc \in { "await", "speech" }) ~> Settled(f)
    /\ [][ \A f \in { "outer", "nested" } :
             (frames[f].pc = "await" /\ frames'[f] # frames[f]) => EverySettle(f) ]_vars

C19_Witness ==
    /\ Settled("outer")
    /\ Settled("nested")
    /\ frames["outer"].task = "interactWithExaminer"
    /\ Len(frames["outer"].requests) = 3
    /\ Len(frames["nested"].requests) = 3
    /\ frames["outer"].out.state = "resolved"

\* C21: within one interactWithExaminer call the nested speech synthesis
\* starts at most once, and only by the step in which a text attempt succeeds
\* with a non-empty response; a step in which a text attempt fails leaves the
\* nested call untouched; the call makes at most Len(chain) text attempts and
\* at most Len(chain) synthesis attempts.
StartsSynthesis == frames'["nested"] # frames["nested"] /\ frames["nested"].pc \in { "idle", "done" }

TextAttemptFails == Failures(frames'["outer"]) > Failures(frames["outer"])

C21_SynthesisAtMostOnce ==
    /\ [][ StartsSynthesis /\ frames'["nested"] # IdleFrame =>
             /\ frames["nested"] = IdleFrame
             /\ frames["outer"].task = "interactWithExaminer"
             /\ frames["outer"].pc = "await"
             /\ frames'["outer"].lastReply.ok
             /\ ~Operation("interactWithExaminer", frames'["outer"].lastReply).threw
             /\ Truthy(Field(frames'["outer"].held, "response"))
             /\ frames'["nested"].task = "generateSpeech" ]_vars
    /\ [][ TextAttemptFails => frames'["nested"] = frames["nested"] ]_vars
    /\ [](\A f \in { "outer", "nested" } : Len(frames[f].requests) <= Len(frames[f].chain))
    /\ [](frames["nested"].pc # "idle" => frames["outer"].task = "interactWithExaminer")

C21_Witness ==
    /\ frames["outer"].task = "interactWithExaminer"
    /\ frames["outer"].pc = "done"
    /\ Failures(frames["outer"]) = 2
    /\ Len(frames["outer"].requests) = Len(frames["outer"].chain)
    /\ Len(frames["nested"].requests) = Len(frames["nested"].chain)
    /\ Len(frames["nested"].chain) = 3
    /\ frames["outer"].args.isFinish

\* C22: in a JSON task caller a response with empty or absent text is read as
\* "{}" and is a successful attempt: the caller is done and resolved with an
\* object without score, feedback or response, it made no further attempt and
\* logged no failure for this reply, and no speech synthesis was started.
EmptyTextReply(fr) == fr.lastReply.ok /\ fr.lastReply.text = TextEmpty

C22_EmptyTextSucceeds ==
    \A f \in Frames : LET fr == frames[f] IN
        (fr.task \in JsonTasks /\ fr.pc # "idle" /\ EmptyTextReply(fr)) =>
            /\ fr.pc = "done"
            /\ fr.retry.state = "resolved"
            /\ fr.out = fr.retry
            /\ Len(fr.requests) = Failures(fr) + 1
            /\ fr.lastError.isNull = (Failures(fr) = 0)
            /\ IF fr.task = "interactWithExaminer"
               THEN /\ fr.out.value = [ userTranscription |-> "", aiResponse |-> Null,
                                        aiAudioBase64 |-> "" ]
                    /\ frames["nested"] = IdleFrame
               ELSE /\ DOMAIN fr.out.value = {}
                    /\ \A name \in { "score", "feedback", "response" } :
                          Field(fr.out.value, name) = Null

C22_Witness ==
    /\ frames["outer"].task = "gradeSpeakingSession"
    /\ EmptyTextReply(frames["outer"])
    /\ frames["outer"].pc = "done"
    /\ Failures(frames["outer"]) = 1
    /\ Len(frames["outer"].requests) = 2
    /\ frames["outer"].out.state = "resolved"

\* C23: the key and the candidate chain of an invocation are read once, from
\* the settings in force when it starts: every request carries the frame's key
\* and the chain's model at its position; while the invocation waits, no step
\* (a Save included) changes its key, its chain or the requests already made;
\* a Save changes no frame; an invocation that starts, a nested generateSpeech
\* included, takes the key and chain from the settings at that moment.
Waiting(f) == frames[f].pc \in { "await", "speech" }

StartsNow(f) ==
    /\ frames[f].pc \in { "idle", "done" }
    /\ frames'[f].pc # "idle"
    /\ frames'[f] # frames[f]

C23_SettingsFixedAtStart ==
    /\ [](\A f \in Frames : \A k \in DOMAIN frames[f].requests :
            /\ frames[f].requests[k].apiKey = frames[f].apiKey
            /\ frames[f].requests[k].model = frames[f].chain[k])
    /\ [][ \A f \in Frames : Waiting(f) =>
             /\ frames'[f].apiKey = frames[f].apiKey
             /\ frames'[f].chain = frames[f].chain
             /\ Len(frames'[f].requests) >= Len(frames[f].requests)
             /\ SubSeq(frames'[f].requests, 1, Len(frames[f].requests)) = frames[f].requests ]_vars
    /\ [][ handleSave => frames' = frames ]_vars
    /\ [][ \A f \in Frames : StartsNow(f) =>
             /\ frames'[f].apiKey = getApiKey(hasWindow, localStorage, env)
             /\ Truthy(frames'[f].apiKey) =>
                  frames'[f].chain = CandidateChain(hasWindow, localStorage) ]_vars

C23_Witness ==
    /\ frames["outer"].pc = "done"
    /\ frames["outer"].apiKey = "AIzaStored"
    /\ frames["outer"].chain[1] = DEFAULT_MODEL
    /\ Len(frames["outer"].requests) = 3
    /\ frames["nested"].apiKey = "AIzaTyped"
    /\ frames["nested"].chain[1] = "gemini-2.5-flash"
    /\ Len(frames["nested"].requests) = 2
    /\ localStorage[LS_KEY] = "AIzaTyped"

\* C24: in the SettingsModal, a step that closes the modal either leaves the
\* persisted key and model as they were (Cancel, the header's close button) or
\* is a Save; typing and selecting change nothing persisted; every change of
\* the persisted settings writes the key field and the selected model together,
\* happens only while the key field is not empty, and closes the modal; the
\* model selected, and so the model a Save persists, is a member of
\* SUPPORTED_MODELS.
Persisted(key, model) == [ lingua_api_key |-> key, lingua_selected_model |-> model ]

Closes == modal.isOpen /\ ~modal'.isOpen

Edits == modal'.apiKey # modal.apiKey \/ modal'.selectedModel # modal.selectedModel

C24_CancelKeepsSaveWritesBoth ==
    /\ [][ Closes => \/ localStorage' = localStorage
                     \/ /\ Truthy(modal.apiKey)
                        /\ localStorage' = Persisted(modal.apiKey, modal.selectedModel) ]_vars
    /\ [][ Edits => localStorage' = localStorage /\ modal'.isOpen /\ modal.isOpen ]_vars
    /\ [][ localStorage' # localStorage =>
             /\ Closes
             /\ Truthy(modal.apiKey)
             /\ localStorage' = Persisted(modal.apiKey, modal.selectedModel)
             /\ localStorage'[LS_MODEL] \in Range(SUPPORTED_MODELS) ]_vars
    /\ [](modal.selectedModel \in Range(SUPPORTED_MODELS))

\* the modal was closed by Cancel with a typed key and a selected model that
\* were never persisted
C24_Witness ==
    /\ ~modal.isOpen
    /\ modal.apiKey = "AIzaTyped"
    /\ modal.selectedModel = "gemini-2.5-flash"
    /\ localStorage = Persisted("AIzaStored", "gemini-3-pro-preview")

=============================================================================
